---- MODULE Spec2Model ----
\* State-machine model of f007th-forwarder.py: the safety relay controller
\* (update_relay / relay_write), the occupancy window (set_occupied /
\* read_occupied), the latest-reading store (currTemps.jsonl) and the
\* forwarder (data.jsonl + last_sent cursor), run by two threads: the main
\* loop and the RPi.GPIO callback thread that executes pir_callback.
\*
\* Time is counted in hours (the code multiplies its hour constants by 3600 and
\* compares epoch seconds; the factor is dropped on both sides).  Byte offsets
\* are counted in abstract units given by LineLen.
EXTENDS Integers, Sequences, FiniteSets, TLC

\* ---------------------------------------------------------------- bounds
NumChannels == 2      \* number of required channels (RELAY_CHANNELS = 1..NumChannels)
MaxTicks == 3         \* the clock takes MaxTicks steps of PIR_TIMEOUT_HOURS
MaxLog == 2           \* readings ingested (appended or not) per model run
MaxRestarts == 1      \* process restarts per model run
MaxOffset == 3        \* offsets a direct caller of set_last_sent may pass

\* ------------------------------------------------------- program constants
CONTROL_TEMP == 355
PIR_TIMEOUT_HOURS == 24
STALE_TEMP_HOURS == 48
RELAY_CHANNELS == 1 .. NumChannels

\* Python's None (read_occupied's result, parse_time's result, a missing key).
NONE == -1
\* A file that does not exist (FileNotFoundError on open).
NoFile == -1
\* A file that exists but is empty / unparseable (left so by open(..., "w")).
Empty == -2
\* A "channel" value that int() rejects (parse_reading kept the raw text).
NonNumeric == -2
\* GPIO levels.
LOW == 0
HIGH == 1

Procs == {"main", "pir"}

VARIABLES
    now,          \* time.time(), in hours
    occFile,      \* OCCUPIED_FILE: NoFile, Empty or the stored expiry
    tempsFile,    \* CURRENT_TEMPS: sequence of lines (records)
    dataLog,      \* DATA_FILE: sequence of lines, each the byte length of a record
    stateFile,    \* STATE_FILE: NoFile, Empty or the stored offset
    accepted,     \* ghost: indices of dataLog lines for which send_record returned True
    relay_state,  \* _relay_state
    pin,          \* level of RELAY_GPIO
    pirEnabled,   \* GPIO.add_event_detect has registered pir_callback
    cleaned,      \* GPIO.cleanup() has run in this process
    pc,           \* control point of each thread
    stack,        \* return addresses of each thread
    expiry,       \* read_occupied: local expiry
    occ,          \* read_occupied's return value as seen by the caller
    temps,        \* temps_are_stale / all_channels_safe: local dict (last load)
    staleSeen,    \* ghost: the dict temps_are_stale loaded in the current evaluation
    clockSeen,    \* ghost: time.time() as read by temps_are_stale
    desired,      \* relay_write: local desired
    record,       \* main: the reading being processed
    appended,     \* main: index of record's line in dataLog (0: the write failed)
    flushPos,     \* flush_backlog: f.tell()
    ingested,     \* readings ingested so far (bounded by MaxLog)
    restarts,     \* restarts so far (bounded by MaxRestarts)
    env           \* the environment of the run: which faults and inputs occur

vars == << now, occFile, tempsFile, dataLog, stateFile, accepted, relay_state, pin,
           pirEnabled, cleaned, pc, stack, expiry, occ, temps, staleSeen, clockSeen,
           desired, record, appended, flushPos, ingested, restarts, env >>

\* Groups used in UNCHANGED clauses.
fileVars == << occFile, tempsFile, dataLog, stateFile, accepted >>
gpioVars == << relay_state, pin, pirEnabled, cleaned >>
evalVars == << expiry, occ, temps, staleSeen, clockSeen, desired >>
mainVars == << record, appended, flushPos, ingested, env >>

\* ---------------------------------------------------------------- helpers
Alive == pc["main"] \notin {"exited", "crashed"}

\* Serialized length of a record's JSON line: the newline plus one unit per
\* optional key present (json.dumps(record) + "\n").
LineLen(r) == 1 + (IF r.temperature = NONE THEN 0 ELSE 1)

RECURSIVE EndOffset(_, _)
\* Byte offset just after line i of a log (0 for i = 0).
EndOffset(log, i) == IF i = 0 THEN 0 ELSE EndOffset(log, i - 1) + log[i]

\* Length of DATA_FILE in bytes.
LogSize == EndOffset(dataLog, Len(dataLog))

\* int(x) succeeds (x is neither missing nor non-numeric text).
IsIntLax(x) == TRUE
IsInt(x) == x >= 0

\* temps[ch] = r on a dict.
DictSet(d, ch, r) == [c \in (DOMAIN d) \cup {ch} |-> IF c = ch THEN r ELSE d[c]]

RECURSIVE LoadLines(_, _, _)
LoadLines(lines, i, out) ==
    IF i > Len(lines) THEN out
    ELSE IF IsInt(lines[i].channel)
         THEN LoadLines(lines, i + 1, DictSet(out, lines[i].channel, lines[i]))
         ELSE LoadLines(lines, i + 1, out)

\* load_current_temps_dict: parse the file's lines into a dict keyed by channel;
\* rows whose channel int() rejects are skipped, a later row replaces an earlier.
load_current_temps_dict(file) == LoadLines(file, 1, << >>)

RECURSIVE SortedLines(_, _)
SortedLines(d, keys) ==
    IF keys = {} THEN << >>
    ELSE LET k == CHOOSE x \in keys : \A y \in keys : x <= y
         IN  << d[k] >> \o SortedLines(d, keys \ {k})

\* write_current_temps_dict: one line per channel, ascending channel order.
write_current_temps_dict(d) == SortedLines(d, DOMAIN d)

\* parse_time: epoch of a "time" value, None when missing or malformed.
parse_time(t) == IF t < 0 THEN NONE ELSE t

\* The test of line 201 on a parsed timestamp.
TooOldOnly(ts, cutoff) == ts # NONE /\ ts < cutoff
UnparseableOrOld(ts, cutoff) == ts = NONE \/ ts < cutoff

RECURSIVE StaleScan(_, _, _)
\* The loop of lines 196-203 from channel ch on.
StaleScan(t, cutoff, ch) ==
    IF ch > NumChannels THEN FALSE
    ELSE IF ch \notin DOMAIN t THEN TRUE
    ELSE IF UnparseableOrOld(parse_time(t[ch].time), cutoff) THEN TRUE
    ELSE StaleScan(t, cutoff, ch + 1)

\* temps_are_stale on a loaded dict, with time.time() = clock.
temps_are_stale(t, clock) == StaleScan(t, clock - STALE_TEMP_HOURS, 1)

\* The comparison of all_channels_safe: int(temp) < int(control_temp).
BelowControlLe(temp) == temp <= CONTROL_TEMP
BelowControl(temp) == temp < CONTROL_TEMP

RECURSIVE SafeScan(_, _)
\* The loop of lines 208-221 from channel ch on.
SafeScan(t, ch) ==
    IF ch > NumChannels THEN TRUE
    ELSE IF ch \notin DOMAIN t THEN FALSE
    ELSE IF ~IsInt(t[ch].temperature) THEN FALSE
    ELSE IF BelowControl(t[ch].temperature) THEN FALSE
    ELSE SafeScan(t, ch + 1)

\* all_channels_safe on a loaded dict.
all_channels_safe(t) == SafeScan(t, 1)

\* get_last_sent: the stored offset, 0 when the file is missing or unparseable.
get_last_sent == IF stateFile < 0 THEN 0 ELSE stateFile

\* -------------------------------------------------------- control helpers
Goto(p, l) == pc' = [pc EXCEPT ![p] = l]

Return(p) ==
    /\ pc' = [pc EXCEPT ![p] = Head(stack[p])]
    /\ stack' = [stack EXCEPT ![p] = Tail(@)]

\* Call update_relay() and come back at ret: its first statement is the call
\* of read_occupied().
CallUpdateRelay(p, ret) ==
    /\ pc' = [pc EXCEPT ![p] = "ro_read"]
    /\ stack' = [stack EXCEPT ![p] = << "ur_occ", ret >> \o @]

\* A reading keeps the keys the controller reads: channel, temperature, time.
\* The other keys (humidity, battery_ok, relay, occupied, ...) are payload that
\* no code path inspects.
NoRecord == [channel |-> NONE, temperature |-> NONE, time |-> NONE]

\* Locals of a finished evaluation are dead; they are put back to fixed values.
ClearEval(p) ==
    /\ expiry' = [expiry EXCEPT ![p] = NONE]
    /\ occ' = [occ EXCEPT ![p] = NONE]
    /\ temps' = [temps EXCEPT ![p] = << >>]
    /\ staleSeen' = [staleSeen EXCEPT ![p] = << >>]
    /\ clockSeen' = [clockSeen EXCEPT ![p] = 0]
    /\ desired' = [desired EXCEPT ![p] = FALSE]

\* ------------------------------------------------------------------ Init
\* The process has started: the setup code has made sure the data files exist
\* and has set the relay pin LOW and _relay_state False; the log is empty and
\* there is no last_sent file.
Started ==
    /\ now = 0
    /\ dataLog = << >>
    /\ stateFile = NoFile
    /\ accepted = {}
    /\ relay_state = FALSE
    /\ pin = LOW
    /\ pirEnabled = FALSE
    /\ cleaned = FALSE
    /\ pc = [p \in Procs |-> IF p = "main" THEN "m_start" ELSE "idle"]
    /\ stack = [p \in Procs |-> << >>]
    /\ expiry = [p \in Procs |-> NONE]
    /\ occ = [p \in Procs |-> NONE]
    /\ temps = [p \in Procs |-> << >>]
    /\ staleSeen = [p \in Procs |-> << >>]
    /\ clockSeen = [p \in Procs |-> 0]
    /\ desired = [p \in Procs |-> FALSE]
    /\ record = NoRecord
    /\ appended = 0
    /\ flushPos = 0
    /\ ingested = 0
    /\ restarts = 0

\* A fresh installation: no OCCUPIED_FILE yet, CURRENT_TEMPS created empty.
Boot == Started /\ occFile = NoFile /\ tempsFile = << >>

\* OCCUPIED_FILE as an earlier run may have left it: absent, truncated by an
\* interrupted set_occupied, or holding an expiry that is still ahead.
LeftOccupied == {NoFile, Empty, PIR_TIMEOUT_HOURS}

Rebooted == Started /\ occFile \in LeftOccupied /\ tempsFile = << >>

\* CURRENT_TEMPS as an earlier run may have left it: empty, or one line per
\* required channel in channel order (write_current_temps_dict's output).
LeftStore ==
    { << >>,
      [ch \in RELAY_CHANNELS |->
          [channel |-> ch, temperature |-> CONTROL_TEMP, time |-> 0]] }

\* The environments: "gpio" GPIO calls may raise; "ctldisk" writes of
\* OCCUPIED_FILE and CURRENT_TEMPS may raise; "logdisk" writes of DATA_FILE and
\* STATE_FILE may raise; "net" send_record may fail (it succeeds otherwise);
\* "rich" readings vary in channel, temperature and timestamp.
\* Init is the fault-free run of both threads on varied readings.
Init == Boot /\ env = {"rich"}

\* ------------------------------------------------------------ the clock
Tick ==
    /\ now + PIR_TIMEOUT_HOURS <= MaxTicks * PIR_TIMEOUT_HOURS
    /\ now' = now + PIR_TIMEOUT_HOURS
    /\ UNCHANGED << fileVars, gpioVars, evalVars, mainVars, pc, stack, restarts >>

\* -------------------------------------------------------- read_occupied
\* open + read of OCCUPIED_FILE: FileNotFoundError returns None at once;
\* otherwise the text read (possibly empty) is kept in the local.
read_occupied_read(p) ==
    /\ Alive /\ pc[p] = "ro_read"
    /\ IF occFile = NoFile
       THEN /\ occ' = [occ EXCEPT ![p] = NONE]
            /\ Return(p)
            /\ UNCHANGED expiry
       ELSE /\ expiry' = [expiry EXCEPT ![p] = occFile]
            /\ Goto(p, "ro_check")
            /\ UNCHANGED << occ, stack >>
    /\ UNCHANGED << now, fileVars, gpioVars, temps, staleSeen, clockSeen,
                    desired, mainVars, restarts >>

\* float() failed, or time.time() > expiry: os.remove and None; else expiry.
read_occupied_check(p) ==
    /\ Alive /\ pc[p] = "ro_check"
    /\ IF expiry[p] = Empty \/ now > expiry[p]
       THEN /\ occFile' = NoFile
            /\ occ' = [occ EXCEPT ![p] = NONE]
       ELSE /\ occ' = [occ EXCEPT ![p] = expiry[p]]
            /\ UNCHANGED occFile
    /\ Return(p)
    /\ UNCHANGED << now, tempsFile, dataLog, stateFile, accepted, gpioVars, expiry,
                    temps, staleSeen, clockSeen, desired, mainVars, restarts >>

\* --------------------------------------------------------- update_relay
\* The test of line 225: read_occupied() is not None.
OccupiedIgnored(o) == FALSE
OccupiedActive(o) == o # NONE

\* Line 225: the occupied window forces OFF, else go on to the staleness check.
update_relay_occupied(p) ==
    /\ Alive /\ pc[p] = "ur_occ"
    /\ IF OccupiedActive(occ[p])
       THEN /\ desired' = [desired EXCEPT ![p] = FALSE]
            /\ Goto(p, "rw_check")
       ELSE /\ Goto(p, "ur_stale")
            /\ UNCHANGED desired
    /\ UNCHANGED << now, fileVars, gpioVars, stack, expiry, occ, temps, staleSeen,
                    clockSeen, mainVars, restarts >>

\* Line 228: temps_are_stale() loads the store and reads the clock.
update_relay_stale(p) ==
    /\ Alive /\ pc[p] = "ur_stale"
    /\ LET t == load_current_temps_dict(tempsFile)
       IN  /\ temps' = [temps EXCEPT ![p] = t]
           /\ staleSeen' = [staleSeen EXCEPT ![p] = t]
           /\ clockSeen' = [clockSeen EXCEPT ![p] = now]
           /\ IF temps_are_stale(t, now)
              THEN /\ desired' = [desired EXCEPT ![p] = FALSE]
                   /\ Goto(p, "rw_check")
              ELSE /\ Goto(p, "ur_safe")
                   /\ UNCHANGED desired
    /\ UNCHANGED << now, fileVars, gpioVars, stack, expiry, occ, mainVars, restarts >>

\* Lines 231-234: all_channels_safe() loads the store again; ON only if safe.
update_relay_safe(p) ==
    /\ Alive /\ pc[p] = "ur_safe"
    /\ LET t == load_current_temps_dict(tempsFile)
       IN  /\ temps' = [temps EXCEPT ![p] = t]
           /\ desired' = [desired EXCEPT ![p] = all_channels_safe(t)]
    /\ Goto(p, "rw_check")
    /\ UNCHANGED << now, fileVars, gpioVars, stack, expiry, occ, staleSeen, clockSeen,
                    mainVars, restarts >>

\* ---------------------------------------------------------- relay_write
\* Line 179: the dedupe test against the remembered state.
DedupeNever(want, remembered) == FALSE
Dedupe(want, remembered) == want = remembered

relay_write_check(p) ==
    /\ Alive /\ pc[p] = "rw_check"
    /\ IF Dedupe(desired[p], relay_state)
       THEN Goto(p, "rw_already")
       ELSE Goto(p, "rw_set")
    /\ UNCHANGED << now, fileVars, gpioVars, stack, evalVars, mainVars, restarts >>

\* Lines 181-183: GPIO.input outside any try: it either succeeds (log, return)
\* or its exception leaves relay_write.
relay_write_already(p) ==
    /\ Alive /\ pc[p] = "rw_already"
    /\ \/ /\ Return(p)
          /\ ClearEval(p)
       \/ /\ "gpio" \in env
          /\ Goto(p, "rw_raised")
          /\ UNCHANGED << stack, evalVars >>
    /\ UNCHANGED << now, fileVars, gpioVars, mainVars, restarts >>

\* Line 184: the remembered state is updated before the pin is driven.
relay_write_set(p) ==
    /\ Alive /\ pc[p] = "rw_set"
    /\ relay_state' = desired[p]
    /\ Goto(p, "rw_output")
    /\ UNCHANGED << now, fileVars, pin, pirEnabled, cleaned, stack, evalVars,
                    mainVars, restarts >>

\* Lines 185-190: GPIO.output then GPIO.input inside try: the pin takes the
\* level, or GPIO.output raised and the pin keeps its level; either way
\* relay_write logs and returns.
relay_write_output(p) ==
    /\ Alive /\ pc[p] = "rw_output"
    /\ \/ pin' = (IF desired[p] THEN HIGH ELSE LOW)
       \/ "gpio" \in env /\ pin' = pin
    /\ Return(p)
    /\ ClearEval(p)
    /\ UNCHANGED << now, fileVars, relay_state, pirEnabled, cleaned, mainVars, restarts >>

\* An exception that left relay_write: in the callback thread RPi.GPIO drops
\* it and the callback ends; in main it is uncaught before the try of line 342
\* (startup evaluation) and runs the finally of line 373 inside the loop.
exception_unwinds(p) ==
    /\ Alive /\ pc[p] = "rw_raised"
    /\ pc' = [pc EXCEPT ![p] = IF p = "pir" THEN "idle"
                               ELSE IF stack[p][Len(stack[p])] = "m_flush"
                                    THEN "crashed" ELSE "m_finally"]
    /\ stack' = [stack EXCEPT ![p] = << >>]
    /\ ClearEval(p)
    /\ UNCHANGED << now, fileVars, gpioVars, mainVars, restarts >>

\* --------------------------------------------- pir_callback / set_occupied
\* A rising edge on PIR_GPIO starts pir_callback in the callback thread.
pir_event ==
    /\ Alive /\ pirEnabled /\ pc["pir"] = "idle"
    /\ Goto("pir", "so_open")
    /\ UNCHANGED << now, fileVars, gpioVars, stack, evalVars, mainVars, restarts >>

\* Lines 161-163: expiry = time.time() + hours*3600, then open(OCCUPIED_FILE, "w")
\* truncates the file; if open raises the file is untouched and the write is skipped.
set_occupied_open ==
    /\ Alive /\ pc["pir"] = "so_open"
    /\ expiry' = [expiry EXCEPT !["pir"] = now + PIR_TIMEOUT_HOURS]
    /\ \/ /\ occFile' = Empty
          /\ Goto("pir", "so_write")
          /\ UNCHANGED stack
       \/ /\ "ctldisk" \in env
          /\ UNCHANGED occFile
          /\ CallUpdateRelay("pir", "idle")
    /\ UNCHANGED << now, tempsFile, dataLog, stateFile, accepted, gpioVars, occ, temps,
                    staleSeen, clockSeen, desired, mainVars, restarts >>

\* Line 164 and the close: the expiry reaches the file, unless the path was
\* unlinked meanwhile (the data goes to the orphaned inode) or the write raised;
\* then line 331 calls update_relay().
set_occupied_write ==
    /\ Alive /\ pc["pir"] = "so_write"
    /\ \/ occFile' = (IF occFile = NoFile THEN NoFile ELSE expiry["pir"])
       \/ "ctldisk" \in env /\ occFile' = occFile
    /\ CallUpdateRelay("pir", "idle")
    /\ UNCHANGED << now, tempsFile, dataLog, stateFile, accepted, gpioVars, evalVars,
                    mainVars, restarts >>

\* -------------------------------------------------------- set_last_sent
\* open(STATE_FILE, "w") then write: the offset is stored as given; or open
\* raised and the file is untouched; or the write raised after the truncation
\* and the file is left empty.  Every exception is swallowed.
set_last_sent(offset) ==
    \/ stateFile' = offset
    \/ "logdisk" \in env /\ stateFile' = stateFile
    \/ "logdisk" \in env /\ stateFile' = Empty

\* ---------------------------------------------------------------- main
\* The readings parse_reading can hand to the loop (a missing key is NONE).
Readings ==
    IF "rich" \in env
    THEN [channel : RELAY_CHANNELS, temperature : {CONTROL_TEMP - 1, CONTROL_TEMP, NONE},
          time : {now}]
         \cup [channel : RELAY_CHANNELS \cup {NONE, NonNumeric}, temperature : {CONTROL_TEMP},
               time : {NONE}]
    ELSE [channel : RELAY_CHANNELS, temperature : {CONTROL_TEMP, NONE}, time : {now}]

\* Lines 336-337: register pir_callback, then the priming read_occupied().
main_start ==
    /\ pc["main"] = "m_start"
    /\ pirEnabled' = TRUE
    /\ pc' = [pc EXCEPT !["main"] = "ro_read"]
    /\ stack' = [stack EXCEPT !["main"] = << "m_init" >>]
    /\ UNCHANGED << now, fileVars, relay_state, pin, cleaned, evalVars, mainVars,
                    restarts >>

\* Line 338: the initial update_relay(); the priming result is dropped.
main_initial_update ==
    /\ pc["main"] = "m_init"
    /\ CallUpdateRelay("main", "m_flush")
    /\ occ' = [occ EXCEPT !["main"] = NONE]
    /\ expiry' = [expiry EXCEPT !["main"] = NONE]
    /\ UNCHANGED << now, fileVars, gpioVars, temps, staleSeen, clockSeen, desired,
                    mainVars, restarts >>

\* Lines 255-259: flush_backlog reads the cursor and seeks to it.
flush_backlog_begin ==
    /\ pc["main"] = "m_flush"
    /\ flushPos' = get_last_sent
    /\ Goto("main", "m_flush_loop")
    /\ UNCHANGED << now, fileVars, gpioVars, stack, evalVars, record, appended,
                    ingested, env, restarts >>

\* The line of the log that holds byte offset pos (pos < LogSize).
LineAt(pos) == CHOOSE i \in 1 .. Len(dataLog) :
                   EndOffset(dataLog, i - 1) <= pos /\ pos < EndOffset(dataLog, i)

\* f.tell() after readline() of the line i.
TellAfterNext(i) == EndOffset(dataLog, i) + 1
TellAfter(i) == EndOffset(dataLog, i)

\* Lines 260-273: one turn of the loop: EOF breaks; a line read from inside a
\* record does not parse and is skipped; a record is sent, and on success the
\* cursor is set to the offset after it, on failure the loop breaks.
flush_backlog_step ==
    /\ pc["main"] = "m_flush_loop"
    /\ IF flushPos >= LogSize
       THEN /\ Goto("main", "m_wait")
            /\ flushPos' = 0
            /\ UNCHANGED << stateFile, accepted >>
       ELSE LET i == LineAt(flushPos)
            IN  IF flushPos # EndOffset(dataLog, i - 1)
                THEN /\ flushPos' = TellAfter(i)
                     /\ UNCHANGED << pc, stateFile, accepted >>
                ELSE \/ /\ accepted' = accepted \cup {i}
                        /\ flushPos' = TellAfter(i)
                        /\ set_last_sent(TellAfter(i))
                        /\ UNCHANGED pc
                     \/ /\ "net" \in env
                        /\ Goto("main", "m_wait")
                        /\ flushPos' = 0
                        /\ UNCHANGED << stateFile, accepted >>
    /\ UNCHANGED << now, occFile, tempsFile, dataLog, gpioVars, stack, evalVars,
                    record, appended, ingested, env, restarts >>

\* Lines 344-356: a complete reading block arrives on stdin and is parsed;
\* relay_is_on() only reads the pin (and swallows its failure); then
\* occupied_is_active() calls read_occupied().
main_reading ==
    /\ pc["main"] = "m_wait"
    /\ ingested < MaxLog
    /\ \E r \in Readings : record' = r
    /\ ingested' = ingested + 1
    /\ pc' = [pc EXCEPT !["main"] = "ro_read"]
    /\ stack' = [stack EXCEPT !["main"] = << "m_append" >>]
    /\ UNCHANGED << now, fileVars, gpioVars, evalVars, appended, flushPos, env,
                    restarts >>

\* Lines 356-362: read_occupied() has returned; the line is written to
\* DATA_FILE and flushed; a failed write is logged and ignored.
main_append ==
    /\ pc["main"] = "m_append"
    /\ \/ /\ dataLog' = Append(dataLog, LineLen(record))
          /\ appended' = Len(dataLog) + 1
       \/ /\ "logdisk" \in env
          /\ UNCHANGED dataLog
          /\ appended' = 0
    /\ occ' = [occ EXCEPT !["main"] = NONE]
    /\ expiry' = [expiry EXCEPT !["main"] = NONE]
    /\ Goto("main", "m_upsert")
    /\ UNCHANGED << now, occFile, tempsFile, stateFile, accepted, gpioVars, stack,
                    temps, staleSeen, clockSeen, desired, record, flushPos, ingested,
                    env, restarts >>

\* Lines 124-136 up to the open of write_current_temps_dict: a record without
\* a channel, or with one int() rejects, is ignored; else the store is loaded
\* and open(CURRENT_TEMPS, "w") truncates the file (or raises: nothing written).
update_current_temps_open ==
    /\ pc["main"] = "m_upsert"
    /\ IF ~IsInt(record.channel)
       THEN /\ Goto("main", "m_send")
            /\ UNCHANGED << tempsFile, temps >>
       ELSE /\ temps' = [temps EXCEPT !["main"] = load_current_temps_dict(tempsFile)]
            /\ \/ /\ tempsFile' = << >>
                  /\ Goto("main", "m_upsert_write")
               \/ /\ "ctldisk" \in env
                  /\ UNCHANGED tempsFile
                  /\ Goto("main", "m_send")
    /\ UNCHANGED << now, occFile, dataLog, stateFile, accepted, gpioVars, stack,
                    expiry, occ, staleSeen, clockSeen, desired, mainVars, restarts >>

\* The table update_current_temps writes: temps[ch] = stored.
UpsertedMerged(t, r) ==
    DictSet(t, r.channel,
            IF r.channel \in DOMAIN t /\ r.temperature = NONE
            THEN [r EXCEPT !.temperature = t[r.channel].temperature]
            ELSE r)
Upserted(t, r) == DictSet(t, r.channel, r)

\* Lines 117-118 and the close: the lines reach the file, or the write raised
\* and the file stays truncated.
update_current_temps_write ==
    /\ pc["main"] = "m_upsert_write"
    /\ \/ tempsFile' = write_current_temps_dict(Upserted(temps["main"], record))
       \/ "ctldisk" \in env /\ UNCHANGED tempsFile
    /\ temps' = [temps EXCEPT !["main"] = << >>]
    /\ Goto("main", "m_send")
    /\ UNCHANGED << now, occFile, dataLog, stateFile, accepted, gpioVars, stack,
                    expiry, occ, staleSeen, clockSeen, desired, mainVars, restarts >>

\* f.tell() on the append handle: the end of DATA_FILE.
TellPastEnd == LogSize + 1
TellBeforeRecord == IF Len(dataLog) = 0 THEN 0 ELSE EndOffset(dataLog, Len(dataLog) - 1)
Tell == LogSize

\* Lines 366-370: send_record; on success set_last_sent(f.tell()); then
\* update_relay().
main_send ==
    /\ pc["main"] = "m_send"
    /\ \/ /\ accepted' = (IF appended = 0 THEN accepted ELSE accepted \cup {appended})
          /\ set_last_sent(Tell)
       \/ "net" \in env /\ UNCHANGED << stateFile, accepted >>
    /\ record' = NoRecord
    /\ appended' = 0
    /\ CallUpdateRelay("main", "m_wait")
    /\ UNCHANGED << now, occFile, tempsFile, dataLog, gpioVars, evalVars, flushPos,
                    ingested, env, restarts >>

\* End of input or KeyboardInterrupt while waiting for a line: the loop ends.
main_stop ==
    /\ pc["main"] = "m_wait"
    /\ Goto("main", "m_finally")
    /\ UNCHANGED << now, fileVars, gpioVars, stack, evalVars, mainVars, restarts >>

\* main is still in the statements of lines 336-340, before the try of line 342.
InStartup ==
    \/ pc["main"] \in {"m_start", "m_init", "m_flush", "m_flush_loop"}
    \/ /\ stack["main"] # << >>
       /\ stack["main"][Len(stack["main"])] \in {"m_init", "m_flush"}

\* SIGINT raises KeyboardInterrupt in the main thread wherever it stands: in
\* the startup statements nothing catches it and the process ends; inside the
\* try of line 342 the except of line 371 takes it and the finally follows.
\* (While main waits for a line this is main_stop.)
interrupt ==
    /\ pc["main"] \notin {"m_wait", "m_finally", "exited", "crashed"}
    /\ pc' = [pc EXCEPT !["main"] = IF InStartup THEN "crashed" ELSE "m_finally"]
    /\ stack' = [stack EXCEPT !["main"] = << >>]
    /\ ClearEval("main")
    /\ record' = NoRecord
    /\ appended' = 0
    /\ flushPos' = 0
    /\ UNCHANGED << now, fileVars, gpioVars, ingested, env, restarts >>

\* Lines 373-375: GPIO.cleanup(), then the process ends.
main_finally ==
    /\ pc["main"] = "m_finally"
    /\ cleaned' = TRUE
    /\ Goto("main", "exited")
    /\ UNCHANGED << now, fileVars, relay_state, pin, pirEnabled, stack, evalVars,
                    mainVars, restarts >>

\* The process is started again: the files and the clock are kept, the module
\* level code runs again (lines 87-91: pin LOW, _relay_state False).
restart ==
    /\ ~Alive
    /\ restarts < MaxRestarts
    /\ restarts' = restarts + 1
    /\ relay_state' = FALSE
    /\ pin' = LOW
    /\ pirEnabled' = FALSE
    /\ cleaned' = FALSE
    /\ pc' = [p \in Procs |-> IF p = "main" THEN "m_start" ELSE "idle"]
    /\ stack' = [p \in Procs |-> << >>]
    /\ expiry' = [p \in Procs |-> NONE]
    /\ occ' = [p \in Procs |-> NONE]
    /\ temps' = [p \in Procs |-> << >>]
    /\ staleSeen' = [p \in Procs |-> << >>]
    /\ clockSeen' = [p \in Procs |-> 0]
    /\ desired' = [p \in Procs |-> FALSE]
    /\ record' = NoRecord
    /\ appended' = 0
    /\ flushPos' = 0
    /\ UNCHANGED << now, fileVars, ingested, env >>

\* ------------------------------------------------------------------ Next
Next ==
    \/ Tick
    \/ \E p \in Procs : read_occupied_read(p)
    \/ \E p \in Procs : read_occupied_check(p)
    \/ \E p \in Procs : update_relay_occupied(p)
    \/ \E p \in Procs : update_relay_stale(p)
    \/ \E p \in Procs : update_relay_safe(p)
    \/ \E p \in Procs : relay_write_check(p)
    \/ \E p \in Procs : relay_write_already(p)
    \/ \E p \in Procs : relay_write_set(p)
    \/ \E p \in Procs : relay_write_output(p)
    \/ pir_event
    \/ set_occupied_open
    \/ set_occupied_write
    \/ main_start
    \/ main_initial_update
    \/ flush_backlog_begin
    \/ flush_backlog_step
    \/ main_reading
    \/ main_append
    \/ update_current_temps_open
    \/ update_current_temps_write
    \/ main_send
    \/ main_stop
    \/ main_finally

Spec == Init /\ [][Next]_vars

\* The main thread on its own, with every fault: send_record may fail, every
\* file write and every GPIO call may raise, and the process is restarted.
\* pir_callback reads and writes only the occupied file, the relay and its own
\* locals, never the log, the cursor or the network, so the forwarder's states
\* are those of the main thread alone.
InitFaults == Rebooted /\ env = {"net", "logdisk", "ctldisk", "gpio"}

MainStep ==
    \/ read_occupied_read("main")
    \/ read_occupied_check("main")
    \/ update_relay_occupied("main")
    \/ update_relay_stale("main")
    \/ update_relay_safe("main")
    \/ relay_write_check("main")
    \/ relay_write_already("main")
    \/ relay_write_set("main")
    \/ relay_write_output("main")
    \/ exception_unwinds("main")
    \/ interrupt
    \/ main_start
    \/ main_initial_update
    \/ flush_backlog_begin
    \/ flush_backlog_step
    \/ main_reading
    \/ main_append
    \/ update_current_temps_open
    \/ update_current_temps_write
    \/ main_send
    \/ main_stop
    \/ main_finally
    \/ restart

SpecFaults == InitFaults /\ [][MainStep]_vars

\* The main thread with an unreliable network and a GPIO that may raise, on
\* sound storage.
InitNet == Rebooted /\ env = {"net", "gpio"}

SpecNet == InitNet /\ [][MainStep]_vars

\* set_last_sent as a unit: besides the program's own calls, a caller passes
\* it arbitrary offsets; the cursor file itself never fails here.
InitCursor == Rebooted /\ env = {"net", "ctldisk", "gpio"}

set_last_sent_call ==
    /\ \E offset \in 0 .. MaxOffset : set_last_sent(offset)
    /\ UNCHANGED << now, occFile, tempsFile, dataLog, accepted, gpioVars, pc, stack,
                    evalVars, mainVars, restarts >>

CursorStep == MainStep \/ set_last_sent_call

SpecCursor == InitCursor /\ [][CursorStep]_vars

\* The main thread on varied readings over a store an earlier run has left,
\* on sound storage; GPIO calls may raise.
InitStore ==
    Started /\ occFile \in LeftOccupied /\ tempsFile \in LeftStore /\ env = {"rich", "gpio"}

SpecStore == InitStore /\ [][MainStep]_vars

\* ================================================================ claims
\* Control points at which update_relay has made its decision (desired) and
\* relay_write is applying it.
DecidedPcs == {"rw_check", "rw_already", "rw_set", "rw_output"}

\* A required channel of table t is missing, or its timestamp does not parse
\* or is older than the staleness horizon at time clock.
SomeChannelStale(t, clock) ==
    \E ch \in RELAY_CHANNELS :
        \/ ch \notin DOMAIN t
        \/ t[ch].time = NONE
        \/ t[ch].time + STALE_TEMP_HOURS < clock

\* Every required channel of table t has a temperature at or above the threshold.
EveryChannelWarm(t) ==
    \A ch \in RELAY_CHANNELS :
        /\ ch \in DOMAIN t
        /\ t[ch].temperature # NONE
        /\ t[ch].temperature >= CONTROL_TEMP

\* The store as it stands on disk.
Store == load_current_temps_dict(tempsFile)

\* C1: whenever an evaluation found the occupancy window active, the decision
\* it applies to the relay is OFF, whatever the store holds.
C1_OccupiedForcesOff ==
    \A p \in Procs :
        (pc[p] \in DecidedPcs /\ occ[p] # NONE) => desired[p] = FALSE

\* C1 witness: an evaluation decides with the window active while every
\* required channel in the store is present, fresh and at the threshold.
C1_Witness ==
    \E p \in Procs :
        /\ pc[p] = "rw_check" /\ occ[p] # NONE /\ occ[p] >= now
        /\ ~SomeChannelStale(Store, now)
        /\ EveryChannelWarm(Store)

\* C2: whenever the staleness check of an evaluation loaded a store in which a
\* required channel is missing, or has an unparseable or too old timestamp,
\* the decision is OFF, whatever the other channels hold; for the main loop,
\* whose store nobody else writes, this is the store on disk.
C2_StaleForcesOff ==
    \A p \in Procs :
        pc[p] \in DecidedPcs =>
            /\ (occ[p] = NONE /\ SomeChannelStale(staleSeen[p], clockSeen[p]))
                   => desired[p] = FALSE
            /\ (p = "main" /\ occ[p] = NONE) => staleSeen[p] = Store

\* C2 witness: occupancy inactive, channel 1 fresh at the threshold, channel 2
\* absent, and the evaluation has decided.
C2_Witness ==
    \E p \in Procs :
        /\ pc[p] = "rw_check" /\ occ[p] = NONE
        /\ DOMAIN staleSeen[p] = {1}
        /\ staleSeen[p][1].time = clockSeen[p]
        /\ staleSeen[p][1].temperature >= CONTROL_TEMP

\* C3: the decision is ON exactly when the evaluation found the occupancy
\* window inactive, every required channel present and fresh in the store its
\* staleness check loaded, and every required channel at or above the
\* threshold in the store its threshold check loaded; the main loop's two
\* loads are the store on disk.
C3_OnExactlyWhenSafe ==
    \A p \in Procs :
        pc[p] \in DecidedPcs =>
            /\ desired[p] = TRUE <=>
                   /\ occ[p] = NONE
                   /\ ~SomeChannelStale(staleSeen[p], clockSeen[p])
                   /\ EveryChannelWarm(temps[p])
            /\ (p = "main" /\ desired[p] = TRUE) =>
                   (staleSeen[p] = Store /\ temps[p] = Store)

\* C3 witness: ON is decided with a channel exactly at the threshold.
C3_Witness ==
    \E p \in Procs :
        /\ pc[p] = "rw_check" /\ desired[p] = TRUE
        /\ \E ch \in RELAY_CHANNELS : temps[p][ch].temperature = CONTROL_TEMP

\* C4: the persisted cursor never decreases: no step of the forwarder (backlog
\* flush, live send, cursor write, restart) lowers what get_last_sent reads.
C4_CursorNeverDecreases == [][get_last_sent' >= get_last_sent]_vars

\* C5: a set_last_sent call whose offset is lower than the stored value does
\* not lower the stored value.
C5_AdvanceClamps ==
    [][\A offset \in 0 .. MaxOffset :
          (offset < get_last_sent /\ set_last_sent(offset))
              => get_last_sent' >= get_last_sent]_vars

\* C6: every line of the log that ends at or before the cursor was accepted by
\* the collector (send_record returned True for it).
C6_PrefixAccepted ==
    \A i \in 1 .. Len(dataLog) :
        EndOffset(dataLog, i) <= get_last_sent => i \in accepted

\* C7: the persisted cursor never exceeds the length of the log.
C7_CursorWithinLog == get_last_sent <= LogSize

\* C7 witness: after a failed log write, a successful live send and a restart
\* the cursor stands at the end of a non-empty log.
C7_Witness ==
    /\ restarts = 1
    /\ Len(dataLog) < ingested
    /\ LogSize > 0
    /\ get_last_sent = LogSize

\* C8: a relay_write whose desired state equals the remembered state goes to
\* the read-back branch and neither drives the pin nor changes the remembered
\* state; the drive of the pin (rw_set, rw_output) is never entered from it.
C8_DedupeNoWrite ==
    [][\A p \in Procs :
          /\ (pc[p] = "rw_check" /\ desired[p] = relay_state /\ pc'[p] # pc[p])
                 => (pc'[p] = "rw_already" /\ pin' = pin /\ relay_state' = relay_state)
          /\ (pc[p] = "rw_already" /\ pc'[p] # pc[p])
                 => (pc'[p] \notin {"rw_set", "rw_output"}
                     /\ pin' = pin /\ relay_state' = relay_state)]_vars

\* C8 witness: a second apply(True): ON is requested while ON is remembered
\* and the pin is HIGH from the first.
C8_Witness ==
    \E p \in Procs :
        /\ pc[p] = "rw_already" /\ desired[p] = TRUE
        /\ relay_state = TRUE /\ pin = HIGH

\* C9: no GPIO failure leaves relay_write as an exception.
C9_HardwareErrorContained == \A p \in Procs : pc[p] # "rw_raised"

\* The complete tables of the store: the one on disk, or, while
\* update_current_temps is between truncation and write, the table before the
\* upsert and the table after it.
CompleteTables ==
    IF pc["main"] = "m_upsert_write"
    THEN {temps["main"], Upserted(temps["main"], record)}
    ELSE {Store}

\* C10: every load of the store by an evaluation returns a complete table,
\* never a partially rewritten one.
C10_SnapshotWhole ==
    [][\A p \in Procs :
          (pc[p] \in {"ur_stale", "ur_safe"} /\ pc'[p] # pc[p])
              => temps'[p] \in CompleteTables]_vars

\* C11: when the process has ended, by end of input, by an interrupt or by an
\* error raised after the GPIO setup, GPIO.cleanup() has run.
C11_CleanupOnExit == ~Alive => cleaned

\* C12: once every record of the log has been sent successfully (in a run
\* without restart: by its live send), the persisted cursor equals the end
\* offset of the log.
C12_AllSentCursorAtEnd ==
    accepted = 1 .. Len(dataLog) => get_last_sent = LogSize

\* C12 witness: two records were appended and each live send succeeded; the
\* loop waits for the next reading.
C12_Witness ==
    /\ restarts = 0 /\ pc["main"] = "m_wait"
    /\ Len(dataLog) = MaxLog /\ accepted = 1 .. MaxLog
    /\ get_last_sent = LogSize

\* C13: read_occupied reports the window active exactly when now < expiry;
\* when it reports inactive (now at or past the expiry) the occupied file is
\* gone afterwards, and when it reports active the file is left as it was.
C13_ActiveIffBeforeExpiry ==
    [][\A p \in Procs :
          (pc[p] = "ro_check" /\ pc'[p] # pc[p]) =>
              /\ (occ'[p] # NONE) <=> (expiry[p] # Empty /\ now < expiry[p])
              /\ (occ'[p] = NONE) => occFile' = NoFile
              /\ (occ'[p] # NONE) => (occFile' = occFile /\ occ'[p] = expiry[p])]_vars

\* C14: a completed update_current_temps starts from the table on disk and
\* leaves a store with one line per channel in which the reading's channel
\* holds exactly that reading and every other channel holds what it held.
C14_UpsertReplacesWholesale ==
    [][/\ (pc["main"] = "m_upsert" /\ pc'["main"] = "m_upsert_write")
           => temps'["main"] = Store
       /\ (pc["main"] = "m_upsert_write" /\ pc'["main"] = "m_send") =>
              /\ \A i, j \in 1 .. Len(tempsFile') :
                     i # j => tempsFile'[i].channel # tempsFile'[j].channel
              /\ DOMAIN Store' = DOMAIN temps["main"] \cup {record.channel}
              /\ Store'[record.channel] = record
              /\ \A c \in DOMAIN temps["main"] \ {record.channel} :
                     Store'[c] = temps["main"][c]]_vars

\* C14 witness: over a store holding both channels with a temperature, one
\* reading for channel 1 without temperature has been upserted: channel 1
\* holds the new reading, channel 2 the old one.
C14_Witness ==
    /\ pc["main"] = "m_send" /\ ingested = 1
    /\ record.channel = 1 /\ record.temperature = NONE
    /\ DOMAIN Store = RELAY_CHANNELS
    /\ Store[1] = record
    /\ Store[2].temperature = CONTROL_TEMP

\* C15: update_current_temps on a reading whose channel is missing or is not
\* an integer returns without rewriting CURRENT_TEMPS and without touching
\* the loaded table.
C15_BadChannelRejected ==
    [][(pc["main"] = "m_upsert" /\ ~(record.channel \in Nat) /\ pc'["main"] # "m_upsert")
          => /\ pc'["main"] # "m_upsert_write"
             /\ tempsFile' = tempsFile
             /\ temps' = temps]_vars

\* C15 witness: a reading with a non-numeric channel has passed
\* update_current_temps while the store holds every required channel.
C15_Witness ==
    /\ pc["main"] = "m_send" /\ record.channel = NonNumeric
    /\ DOMAIN Store = RELAY_CHANNELS

\* C16: when a backlog flush has run to the end of the log, none of its sends
\* having failed, every record appended to the log has been accepted by the
\* collector: none is skipped for good.
C16_FlushDeliversEveryRecord ==
    [][(pc["main"] = "m_flush_loop" /\ flushPos >= LogSize /\ pc'["main"] = "m_wait")
          => \A i \in 1 .. Len(dataLog) : i \in accepted]_vars

\* C17: a backlog flush pass starts at the persisted cursor and moves through
\* the log in order; the cursor rises only when the record at the pass's
\* position was just accepted, and then to the offset right after that
\* record; a failed send ends the pass with cursor and acceptances untouched;
\* throughout the pass the cursor is not beyond the pass's position, that is,
\* not beyond any record the pass has yet to try or has failed to send.
C17_FlushInOrder ==
    [][/\ (pc["main"] = "m_flush" /\ pc'["main"] = "m_flush_loop")
           => flushPos' = get_last_sent
       /\ pc["main"] = "m_flush_loop" => get_last_sent <= flushPos
       /\ (pc["main"] = "m_flush_loop" /\ pc'["main"] = "m_flush_loop")
           => /\ flushPos < LogSize
              /\ flushPos' = EndOffset(dataLog, LineAt(flushPos))
              /\ accepted' \in {accepted, accepted \cup {LineAt(flushPos)}}
       /\ (pc["main"] = "m_flush_loop" /\ get_last_sent' > get_last_sent)
           => /\ flushPos = EndOffset(dataLog, LineAt(flushPos) - 1)
              /\ LineAt(flushPos) \in accepted'
              /\ get_last_sent' = EndOffset(dataLog, LineAt(flushPos))
              /\ pc'["main"] = "m_flush_loop"
       /\ (pc["main"] = "m_flush_loop" /\ flushPos < LogSize /\ pc'["main"] = "m_wait")
           => (accepted' = accepted /\ stateFile' = stateFile)]_vars

\* C17 witness: after a restart the flush pass met an unsent backlog at
\* cursor 0, failed on its first record and stopped: nothing is accepted, the
\* cursor is still 0 and the loop has taken over.
C17_Witness ==
    /\ restarts = 1 /\ pc["main"] = "m_wait"
    /\ Len(dataLog) = MaxLog /\ ingested = MaxLog
    /\ accepted = {} /\ get_last_sent = 0

\* C18: when the main loop waits for the next reading and pir_callback is not
\* running (both have finished their evaluations, no event is in progress),
\* an occupancy window that is still active means the relay pin is LOW and
\* the remembered state is OFF.
C18_QuiescentOccupiedOff ==
    (pc["main"] = "m_wait" /\ pc["pir"] = "idle" /\ occFile >= 0 /\ now < occFile)
        => (pin = LOW /\ relay_state = FALSE)

\* C19: outside the two statements of relay_write that set the remembered
\* state and then drive the pin, _relay_state is the level the pin was last
\* driven to successfully (LOW from the setup).
C19_RememberedMatchesPin ==
    (\A p \in Procs : pc[p] # "rw_output") => (relay_state <=> pin = HIGH)

\* C20: for each reading the main loop goes from the store update to the
\* evaluation and its relay_write, and only then to send_record: the store
\* update is not followed directly by the send, and once the send has been
\* attempted nothing is left to do for the reading but to wait for the next.
C20_RelayBeforeSend ==
    [][/\ (pc["main"] \in {"m_upsert", "m_upsert_write"} /\ pc'["main"] # pc["main"])
           => pc'["main"] # "m_send"
       /\ (pc["main"] = "m_send" /\ pc'["main"] \notin {"m_send", "m_finally"})
           => pc'["main"] = "m_wait"]_vars

====
